---- MODULE Spec2Model ----
(***************************************************************************)
(* Workout Log backend (src/WorkoutBackend/WorkoutLogBackend.py): a Flask  *)
(* application over two SQLAlchemy tables (users, workouts) with JWT       *)
(* authentication.  Every route is one action that reads the request       *)
(* inputs, changes the tables as the handler does and leaves the request   *)
(* and its response in `last`.                                             *)
(*                                                                         *)
(* Time is counted in ticks of 1/TicksPerSecond second, so that a clock    *)
(* reading (datetime.utcnow(), microsecond resolution) can fall between    *)
(* two whole seconds, while the `exp` claim of a token is a whole number   *)
(* of seconds (RFC 7519 NumericDate, which is how jwt.encode writes a      *)
(* datetime).                                                              *)
(***************************************************************************)
EXTENDS Integers, Sequences, FiniteSets, TLC

VARIABLES
    users,      \* rows of table users
    workouts,   \* rows of table workouts
    now,        \* the clock, in ticks
    issued,     \* tokens handed out by login, each with the time of the login
    last,       \* the last request and its response
    rpc,        \* concurrent register requests: position of each worker
    rreq,       \* concurrent register requests: the request of each worker
    rstatus     \* concurrent register requests: the status answered

vars == <<users, workouts, now, issued, last, rpc, rreq, rstatus>>

----------------------------------------------------------------------------
(* Bounds of the model *)

TicksPerSecond == 2
MaxDays == 1
MaxOffset == 1
MaxUserId == 2
MaxWorkoutId == 1
MaxTokens == 1
MaxEditId == 2
MaxListId == 3
MaxPage == 2
MaxPerPage == 2
MaxWorkers == 3

(* timedelta(hours=24) *)
TokenLifetimeHours == 24

(* request.args.get('per_page', 5, type=int) *)
DefaultPerPage == 5

(* request.args.get('page', 1, type=int) *)
DefaultPage == 1

TokenLifetime == TokenLifetimeHours * 3600 * TicksPerSecond

Usernames == {"alice", "bob"}

Min(a, b) == IF a < b THEN a ELSE b

MaxOf(S) == CHOOSE x \in S : \A y \in S : y <= x

(* dict.get(key, default) *)
Get(d, k, default) == IF k \in DOMAIN d THEN d[k] ELSE default

----------------------------------------------------------------------------
(* Database models *)

(* Integer primary key of a SQLite table: the largest id in use plus one *)
NextId(rows) == IF rows = {} THEN 1 ELSE MaxOf({r.id : r \in rows}) + 1

(* bcrypt.generate_password_hash: a one-way verifier of the password *)
generate_password_hash(password) == [bcrypt |-> password]

(* User.check_password *)
check_password(user, password) ==
    user.password_hash = generate_password_hash(password)

(* User.__init__, with the id the insert assigns *)
NewUser(username, password) ==
    [id |-> NextId(users), username |-> username,
     password_hash |-> generate_password_hash(password)]

(* Mutant: the lookup by username finds nothing *)
UserByName_none(username) == {u \in users : FALSE}

(* User.query.filter_by(username=...).first(), as the set of rows found *)
UserByName(username) == {u \in users : u.username = username}

(* Mutant: the cardio flag is not looked at *)
total_volume_strength(w) == w.sets * w.reps * w.weight_kg

(* Workout.total_volume *)
total_volume(w) == IF w.is_cardio THEN 0 ELSE w.sets * w.reps * w.weight_kg

(* datetime.isoformat *)
isoformat(t) == <<"iso", t>>

(* Workout.to_dict *)
to_dict(w) ==
    [id |-> w.id,
     exercise_name |-> w.exercise_name,
     muscle_group |-> w.muscle_group,
     is_cardio |-> w.is_cardio,
     sets |-> w.sets,
     reps |-> w.reps,
     weight_kg |-> w.weight_kg,
     total_volume |-> total_volume(w),
     created_at |-> isoformat(w.created_at)]

----------------------------------------------------------------------------
(* JWT *)

(* timegm(dt.utctimetuple()): a datetime as whole seconds, here in ticks *)
NumericDate(t) == t - (t % TicksPerSecond)

(* jwt.encode({'user_id': ..., 'exp': ...}, SECRET_KEY, algorithm="HS256") *)
jwt_encode(user_id, exp) ==
    [kind |-> "signed", user_id |-> user_id, exp |-> NumericDate(exp)]

(* Mutant: the signature is not verified *)
jwt_decode_unverified(token, t) ==
    IF token.kind = "garbage" THEN [ok |-> FALSE, error |-> "Not enough segments"]
    ELSE IF token.exp <= t THEN [ok |-> FALSE, error |-> "Signature has expired"]
    ELSE [ok |-> TRUE, user_id |-> token.user_id]

(* Mutant: a token is still accepted at the second it expires *)
jwt_decode_late(token, t) ==
    IF token.kind = "garbage" THEN [ok |-> FALSE, error |-> "Not enough segments"]
    ELSE IF token.kind = "forged"
         THEN [ok |-> FALSE, error |-> "Signature verification failed"]
    ELSE IF token.exp < t THEN [ok |-> FALSE, error |-> "Signature has expired"]
    ELSE [ok |-> TRUE, user_id |-> token.user_id]

(* jwt.decode(token, SECRET_KEY, algorithms=["HS256"]) at time t: the       *)
(* signature is verified first, then the exp claim                         *)
jwt_decode(token, t) ==
    IF token.kind = "garbage" THEN [ok |-> FALSE, error |-> "Not enough segments"]
    ELSE IF token.kind = "forged"
         THEN [ok |-> FALSE, error |-> "Signature verification failed"]
    ELSE IF token.exp <= t THEN [ok |-> FALSE, error |-> "Signature has expired"]
    ELSE [ok |-> TRUE, user_id |-> token.user_id]

(* No x-access-token header, or an empty one *)
AbsentToken == [kind |-> "absent", user_id |-> 0, exp |-> 0]
GarbageToken == [kind |-> "garbage", user_id |-> 0, exp |-> 0]

SignedToken(k) == [kind |-> "signed", user_id |-> k.user_id, exp |-> k.exp]
ForgedToken(k) == [kind |-> "forged", user_id |-> k.user_id, exp |-> k.exp]

(* What a client can put in the x-access-token header *)
IssuedTokens == {SignedToken(k) : k \in issued}
TokenInputs ==
    {AbsentToken, GarbageToken}
        \cup {ForgedToken(k) : k \in issued} \cup IssuedTokens

(* token_required: the decorator's own part.  current_user is the set of   *)
(* rows User.query.get finds: empty when it returns None                   *)
token_required(token) ==
    IF token.kind = "absent"
    THEN [pass |-> FALSE, status |-> 401, body |-> [message |-> "Token is missing!"]]
    ELSE LET data == jwt_decode(token, now) IN
         IF ~data.ok
         THEN [pass |-> FALSE, status |-> 401,
               body |-> [message |-> "Token is invalid!", error |-> data.error]]
         ELSE [pass |-> TRUE,
               current_user |-> {u \in users : u.id = data.user_id}]

----------------------------------------------------------------------------
(* Requests and responses *)

NoArgs == [none |-> TRUE]

Response(op, token, ran, req, status, body) ==
    [op |-> op, at |-> now, token |-> token, ran |-> ran, req |-> req,
     status |-> status, body |-> body]

(* An exception no handler catches: Flask answers 500 *)
InternalServerError == [message |-> "Internal Server Error"]

NotFoundBody == [message |-> "Workout not found or unauthorized"]

Protected == {"create", "list", "update", "delete"}

UNCHANGED_race == UNCHANGED <<rpc, rreq, rstatus>>

Init ==
    /\ users = {}
    /\ workouts = {}
    /\ now = 0
    /\ issued = {}
    /\ last = Response("start", AbsentToken, FALSE, NoArgs, 0, NoArgs)
    /\ rpc = [p \in {} |-> "idle"]
    /\ rreq = [p \in {} |-> NoArgs]
    /\ rstatus = [p \in {} |-> 0]

----------------------------------------------------------------------------
(* Environment *)

Instants == {d * TokenLifetime + j : d \in 0..MaxDays, j \in 0..MaxOffset}

(* Time passes *)
Tick(t) ==
    /\ t > now
    /\ now' = t
    /\ last' = [Response("tick", AbsentToken, FALSE, NoArgs, 0, NoArgs) EXCEPT !.at = t]
    /\ UNCHANGED <<users, workouts, issued>>
    /\ UNCHANGED_race

(* An account is deleted outside the API; the relationship's cascade       *)
(* removes the user's workouts with it                                     *)
RemoveUser(u) ==
    /\ u \in users
    /\ users' = users \ {u}
    /\ workouts' = {w \in workouts : w.user_id # u.id}
    /\ last' = Response("remove_user", AbsentToken, FALSE, NoArgs, 0, NoArgs)
    /\ UNCHANGED <<now, issued>>
    /\ UNCHANGED_race

----------------------------------------------------------------------------
(* Authentication routes *)

register(username, password) ==
    LET req == [username |-> username, password |-> password] IN
    /\ IF username = "" \/ password = ""
       THEN /\ last' = Response("register", AbsentToken, TRUE, req, 400,
                                [message |-> "Username and password are required"])
            /\ UNCHANGED users
       ELSE IF UserByName(username) # {}
       THEN /\ last' = Response("register", AbsentToken, TRUE, req, 409,
                                [message |-> "Username already exists"])
            /\ UNCHANGED users
       ELSE /\ users' = users \cup {NewUser(username, password)}
            /\ last' = Response("register", AbsentToken, TRUE, req, 201,
                                [message |-> "New user created!"])
    /\ UNCHANGED <<workouts, now, issued>>
    /\ UNCHANGED_race

login(username, password) ==
    LET req == [username |-> username, password |-> password] IN
    /\ IF username = "" \/ password = ""
       THEN /\ last' = Response("login", AbsentToken, TRUE, req, 401,
                                [message |-> "Could not verify"])
            /\ UNCHANGED issued
       ELSE IF UserByName(username) = {}
       THEN /\ last' = Response("login", AbsentToken, TRUE, req, 401,
                                [message |-> "User not found"])
            /\ UNCHANGED issued
       ELSE LET user == CHOOSE u \in UserByName(username) : TRUE IN
            IF check_password(user, password)
            THEN LET token == jwt_encode(user.id, now + TokenLifetime) IN
                 /\ last' = Response("login", AbsentToken, TRUE, req, 200,
                                     [token |-> token])
                 /\ issued' = issued \cup
                        {[user_id |-> token.user_id, exp |-> token.exp,
                          issued_at |-> now]}
            ELSE /\ last' = Response("login", AbsentToken, TRUE, req, 401,
                                     [message |-> "Wrong password"])
                 /\ UNCHANGED issued
    /\ UNCHANGED <<users, workouts, now>>
    /\ UNCHANGED_race

----------------------------------------------------------------------------
(* Workout routes *)

required_fields ==
    {"exercise_name", "muscle_group", "sets", "reps", "weight_kg", "is_cardio"}

(* The rejection the decorator answers without calling the route *)
Rejected(op, token, req, auth) ==
    /\ last' = Response(op, token, FALSE, req, auth.status, auth.body)
    /\ UNCHANGED workouts

(* current_user.id on None raises AttributeError *)
Crashed(op, token, req) ==
    /\ last' = Response(op, token, TRUE, req, 500, InternalServerError)
    /\ UNCHANGED workouts

create_workout(token, data) ==
    LET auth == token_required(token)
        req == [data |-> data]
    IN
    /\ IF ~auth.pass THEN Rejected("create", token, req, auth)
       ELSE IF ~(required_fields \subseteq DOMAIN data)
       THEN /\ last' = Response("create", token, TRUE, req, 400,
                                [message |-> "Missing required fields"])
            /\ UNCHANGED workouts
       ELSE IF auth.current_user = {} THEN Crashed("create", token, req)
       ELSE LET current_user == CHOOSE u \in auth.current_user : TRUE
                new_workout ==
                    [id |-> NextId(workouts),
                     user_id |-> current_user.id,
                     exercise_name |-> data.exercise_name,
                     muscle_group |-> data.muscle_group,
                     is_cardio |-> data.is_cardio,
                     sets |-> data.sets,
                     reps |-> data.reps,
                     weight_kg |-> data.weight_kg,
                     created_at |-> now]
            IN
            /\ workouts' = workouts \cup {new_workout}
            /\ last' = Response("create", token, TRUE, req, 201, to_dict(new_workout))
    /\ UNCHANGED <<users, now, issued>>
    /\ UNCHANGED_race

(* All the orders of a set of rows *)
Orders(rows) ==
    {s \in [1..Cardinality(rows) -> rows] :
        \A i, j \in 1..Cardinality(rows) : i # j => s[i] # s[j]}

(* query.order_by(Workout.created_at.desc()): any order of the rows with   *)
(* created_at descending; rows with equal created_at come in an order the  *)
(* database chooses                                                        *)
order_by_created_at_desc(rows) ==
    {s \in Orders(rows) :
        \A i \in 1..(Cardinality(rows) - 1) : s[i].created_at >= s[i + 1].created_at}

(* Mutant: the page starts one row late *)
paginate_shifted(rows, page, per_page) ==
    LET p == IF page < 1 THEN 1 ELSE page
        pp == IF per_page < 1 THEN 20 ELSE per_page
        total == Len(rows)
        pages == IF total = 0 THEN 0 ELSE (total + pp - 1) \div pp
    IN  [items |-> SubSeq(rows, (p - 1) * pp + 2, Min(p * pp + 1, total)),
         pages |-> pages,
         page |-> p,
         has_next |-> p < pages,
         has_prev |-> p > 1]

(* query.paginate(page=page, per_page=per_page, error_out=False) *)
paginate(rows, page, per_page) ==
    LET p == IF page < 1 THEN 1 ELSE page
        pp == IF per_page < 1 THEN 20 ELSE per_page
        total == Len(rows)
        pages == IF total = 0 THEN 0 ELSE (total + pp - 1) \div pp
    IN  [items |-> SubSeq(rows, (p - 1) * pp + 1, Min(p * pp, total)),
         pages |-> pages,
         page |-> p,
         has_next |-> p < pages,
         has_prev |-> p > 1]

(* The rows the query of get_workouts selects *)
Selected(user_id, muscle_group_filter) ==
    {w \in workouts :
        /\ w.user_id = user_id
        /\ muscle_group_filter # "" => w.muscle_group = muscle_group_filter}

get_workouts(token, args) ==
    LET auth == token_required(token)
        page == Get(args, "page", DefaultPage)
        per_page == Get(args, "per_page", DefaultPerPage)
        \* request.args.get('muscle_group', None): None and '' are both falsy
        muscle_group_filter == Get(args, "muscle_group", "")
    IN
    /\ IF ~auth.pass THEN Rejected("list", token, args, auth)
       ELSE IF auth.current_user = {} THEN Crashed("list", token, args)
       ELSE LET current_user == CHOOSE u \in auth.current_user : TRUE IN
            \E query \in order_by_created_at_desc(
                            Selected(current_user.id, muscle_group_filter)) :
                LET paginated_workouts == paginate(query, page, per_page)
                    workouts_list ==
                        [i \in 1..Len(paginated_workouts.items) |->
                            to_dict(paginated_workouts.items[i])]
                IN
                /\ last' = Response("list", token, TRUE, args, 200,
                                    [workouts |-> workouts_list,
                                     total_pages |-> paginated_workouts.pages,
                                     current_page |-> paginated_workouts.page,
                                     has_next |-> paginated_workouts.has_next,
                                     has_prev |-> paginated_workouts.has_prev])
                /\ UNCHANGED workouts
    /\ UNCHANGED <<users, now, issued>>
    /\ UNCHANGED_race

(* Mutant: the lookup filters by id alone *)
OwnedWorkout_any(workout_id, user_id) ==
    {w \in workouts : w.id = workout_id}

(* Workout.query.filter_by(id=workout_id, user_id=current_user.id).first() *)
OwnedWorkout(workout_id, user_id) ==
    {w \in workouts : w.id = workout_id /\ w.user_id = user_id}

(* Mutant: weight_kg is not taken from the request *)
ApplyUpdate_forgets(workout, data) ==
    [workout EXCEPT
        !.exercise_name = Get(data, "exercise_name", workout.exercise_name),
        !.muscle_group = Get(data, "muscle_group", workout.muscle_group),
        !.is_cardio = Get(data, "is_cardio", workout.is_cardio),
        !.sets = Get(data, "sets", workout.sets),
        !.reps = Get(data, "reps", workout.reps)]

(* The assignments of update_workout *)
ApplyUpdate(workout, data) ==
    [workout EXCEPT
        !.exercise_name = Get(data, "exercise_name", workout.exercise_name),
        !.muscle_group = Get(data, "muscle_group", workout.muscle_group),
        !.is_cardio = Get(data, "is_cardio", workout.is_cardio),
        !.sets = Get(data, "sets", workout.sets),
        !.reps = Get(data, "reps", workout.reps),
        !.weight_kg = Get(data, "weight_kg", workout.weight_kg)]

update_workout(token, workout_id, data) ==
    LET auth == token_required(token)
        req == [workout_id |-> workout_id, data |-> data]
    IN
    /\ IF ~auth.pass THEN Rejected("update", token, req, auth)
       ELSE IF auth.current_user = {} THEN Crashed("update", token, req)
       ELSE LET current_user == CHOOSE u \in auth.current_user : TRUE
                found == OwnedWorkout(workout_id, current_user.id)
            IN
            IF found = {}
            THEN /\ last' = Response("update", token, TRUE, req, 404, NotFoundBody)
                 /\ UNCHANGED workouts
            ELSE LET workout == CHOOSE w \in found : TRUE
                     updated == ApplyUpdate(workout, data)
                 IN
                 /\ workouts' = (workouts \ {workout}) \cup {updated}
                 /\ last' = Response("update", token, TRUE, req, 200, to_dict(updated))
    /\ UNCHANGED <<users, now, issued>>
    /\ UNCHANGED_race

delete_workout(token, workout_id) ==
    LET auth == token_required(token)
        req == [workout_id |-> workout_id]
    IN
    /\ IF ~auth.pass THEN Rejected("delete", token, req, auth)
       ELSE IF auth.current_user = {} THEN Crashed("delete", token, req)
       ELSE LET current_user == CHOOSE u \in auth.current_user : TRUE
                found == OwnedWorkout(workout_id, current_user.id)
            IN
            IF found = {}
            THEN /\ last' = Response("delete", token, TRUE, req, 404, NotFoundBody)
                 /\ UNCHANGED workouts
            ELSE /\ workouts' = workouts \ found
                 /\ last' = Response("delete", token, TRUE, req, 200,
                                     [message |-> "Workout deleted successfully"])
    /\ UNCHANGED <<users, now, issued>>
    /\ UNCHANGED_race

----------------------------------------------------------------------------
(* The API served to clients that register, log in and use every kind of   *)
(* token, while time passes and accounts are removed                       *)

StrengthBody ==
    [exercise_name |-> "squat", muscle_group |-> "legs", is_cardio |-> FALSE,
     sets |-> 3, reps |-> 10, weight_kg |-> 20]

IncompleteBody ==
    [exercise_name |-> "squat", muscle_group |-> "legs", is_cardio |-> FALSE,
     sets |-> 3, reps |-> 10]

WeightOnly == [weight_kg |-> 50]

WorkoutIds == 1..MaxWorkoutId

Register ==
    \E username \in Usernames \cup {""}, password \in {"pw", ""} :
        /\ register(username, password)
        /\ \A u \in users' : u.id <= MaxUserId

Login ==
    \E username \in Usernames \cup {""}, password \in {"pw", "bad"} :
        /\ login(username, password)
        /\ Cardinality(issued') <= MaxTokens

Clock == \E t \in Instants : Tick(t)

AccountRemoved == \E u \in users : RemoveUser(u)

Create ==
    \E token \in TokenInputs, data \in {StrengthBody, IncompleteBody} :
        /\ create_workout(token, data)
        /\ \A w \in workouts' : w.id <= MaxWorkoutId

List == \E token \in TokenInputs : get_workouts(token, [x \in {} |-> 0])

Update ==
    \E token \in TokenInputs, workout_id \in WorkoutIds :
        update_workout(token, workout_id, WeightOnly)

Delete ==
    \E token \in TokenInputs, workout_id \in WorkoutIds :
        delete_workout(token, workout_id)

Next ==
    \/ Register
    \/ Login
    \/ Clock
    \/ AccountRemoved
    \/ Create
    \/ List
    \/ Update
    \/ Delete

Spec == Init /\ [][Next]_vars

----------------------------------------------------------------------------
(* Properties of authentication, checked under Spec *)

WorkoutKeys ==
    {"workouts", "id", "exercise_name", "muscle_group", "is_cardio", "sets",
     "reps", "weight_kg", "total_volume", "created_at"}

(* A token that is absent, malformed, wrongly signed, or expired at time t *)
BadToken(token, t) ==
    \/ token.kind \in {"absent", "garbage", "forged"}
    \/ token.kind = "signed" /\ t >= token.exp

(* C2: a request to a protected route whose token is absent, malformed,    *)
(* wrongly signed or expired is answered 401, the route is not run, the    *)
(* stored users and workouts are unchanged and the body holds no workout   *)
(* data.                                                                   *)
C2_FailClosed ==
    [][(last'.op \in Protected /\ BadToken(last'.token, last'.at))
        => /\ last'.status = 401
           /\ ~last'.ran
           /\ workouts' = workouts
           /\ users' = users
           /\ DOMAIN last'.body \cap WorkoutKeys = {}]_vars

(* An expired token was refused while workouts were stored *)
C2_Witness ==
    /\ last.op \in Protected
    /\ last.token.kind = "signed"
    /\ last.at >= last.token.exp
    /\ last.status = 401
    /\ workouts # {}

(* C3: a Register with non-empty username and password answers 409 and     *)
(* leaves the users unchanged when the username is stored, and otherwise   *)
(* answers 201 and adds exactly one user, with that username.              *)
C3_Register ==
    [][(/\ last'.op = "register"
        /\ last'.req.username # ""
        /\ last'.req.password # "")
        => IF \E u \in users : u.username = last'.req.username
           THEN last'.status = 409 /\ users' = users
           ELSE /\ last'.status = 201
                /\ \E n \in users' :
                    /\ n \notin users
                    /\ n.username = last'.req.username
                    /\ users' = users \cup {n}]_vars

(* A second registration of a stored username was refused *)
C3_Witness ==
    /\ last.op = "register"
    /\ last.status = 409
    /\ \E u \in users : u.username = last.req.username
    /\ Cardinality(users) = 2

(* The logins that issued the token of the last request *)
IssuesOf(token) ==
    {k \in issued : k.user_id = token.user_id /\ k.exp = token.exp}

(* Login issues a token exactly when the username is stored and the        *)
(* password verifies, and answers 401 otherwise                            *)
LoginIssues ==
    last.op = "login" =>
        IF \E u \in users :
              /\ u.username = last.req.username
              /\ u.password_hash = [bcrypt |-> last.req.password]
        THEN /\ last.status = 200
             /\ DOMAIN last.body = {"token"}
             /\ last.body.token \in IssuedTokens
        ELSE last.status = 401 /\ "token" \notin DOMAIN last.body

(* C4, as claimed: a token issued by a Login at time t is accepted at      *)
(* every time strictly before t + 24 hours and rejected with 401 at every  *)
(* time at or after t + 24 hours, as long as the user exists; Login issues *)
(* a token only for a stored username with its password, else 401.         *)
C4_Original ==
    /\ (last.op \in Protected /\ last.token.kind = "signed") =>
        \A k \in IssuesOf(last.token) :
            /\ (/\ last.at < k.issued_at + TokenLifetime
                /\ \E u \in users : u.id = k.user_id)
                    => last.ran /\ last.status # 401
            /\ last.at >= k.issued_at + TokenLifetime
                    => ~last.ran /\ last.status = 401
    /\ LoginIssues

(* C4, amended: the same with the expiry counted from t rounded down to a  *)
(* whole second: accepted strictly before floor(t) + 24 hours, rejected    *)
(* with 401 at or after it.                                                *)
C4_TokenLifetime ==
    /\ (last.op \in Protected /\ last.token.kind = "signed") =>
        \A k \in IssuesOf(last.token) :
            LET t == k.issued_at - (k.issued_at % TicksPerSecond) IN
            /\ (/\ last.at < t + TokenLifetime
                /\ \E u \in users : u.id = k.user_id)
                    => last.ran /\ last.status # 401
            /\ last.at >= t + TokenLifetime
                    => ~last.ran /\ last.status = 401
    /\ LoginIssues

(* A token issued between two whole seconds was refused 24 hours after the *)
(* whole second before its issue                                           *)
C4_Witness ==
    /\ last.op \in Protected
    /\ last.token.kind = "signed"
    /\ last.status = 401
    /\ \E k \in IssuesOf(last.token) :
        /\ k.issued_at % TicksPerSecond # 0
        /\ last.at = k.issued_at - (k.issued_at % TicksPerSecond) + TokenLifetime

(* C5: a well-formed, correctly signed, unexpired token whose user is no   *)
(* longer stored is answered 401 by every protected route, and the route   *)
(* is not run.                                                             *)
C5_RemovedUserRejected ==
    (/\ last.op \in Protected
     /\ last.token.kind = "signed"
     /\ last.at < last.token.exp
     /\ ~ \E u \in users : u.id = last.token.user_id)
        => last.status = 401 /\ ~last.ran

----------------------------------------------------------------------------
(* Two registered users, both logged in, who create, edit, delete and list *)
(* their workouts                                                          *)

Alice == [id |-> 1, username |-> "alice", password_hash |-> generate_password_hash("pw")]
Bob == [id |-> 2, username |-> "bob", password_hash |-> generate_password_hash("pw")]

(* The state after alice and bob registered and logged in at time 0 *)
InitLoggedIn ==
    /\ users = {Alice, Bob}
    /\ workouts = {}
    /\ now = 0
    /\ issued = {[user_id |-> u.id, exp |-> jwt_encode(u.id, TokenLifetime).exp,
                  issued_at |-> 0] : u \in {Alice, Bob}}
    /\ last = Response("login", AbsentToken, TRUE,
                       [username |-> "bob", password |-> "pw"], 200,
                       [token |-> jwt_encode(Bob.id, TokenLifetime)])
    /\ rpc = [p \in {} |-> "idle"]
    /\ rreq = [p \in {} |-> NoArgs]
    /\ rstatus = [p \in {} |-> 0]

CardioBody ==
    [exercise_name |-> "run", muscle_group |-> "cardio", is_cardio |-> TRUE,
     sets |-> 1, reps |-> 2, weight_kg |-> 5]

SetsAndReps == [sets |-> 4, reps |-> 8]

Relabel == [exercise_name |-> "row", muscle_group |-> "back", is_cardio |-> TRUE]

(* A body that also names the columns the route does not assign *)
Takeover == [id |-> 9, user_id |-> 1, created_at |-> 7, weight_kg |-> 50]

EmptyBody == [x \in {} |-> 0]

UpdateBodies == {WeightOnly, SetsAndReps, Relabel, Takeover, EmptyBody}

EditCreate ==
    \E token \in IssuedTokens, data \in {StrengthBody, CardioBody} :
        /\ create_workout(token, data)
        /\ \A w \in workouts' : w.id <= MaxEditId

EditList == \E token \in IssuedTokens : get_workouts(token, EmptyBody)

EditUpdate ==
    \E token \in IssuedTokens, workout_id \in 1..MaxEditId, data \in UpdateBodies :
        update_workout(token, workout_id, data)

EditDelete ==
    \E token \in IssuedTokens, workout_id \in 1..MaxEditId :
        delete_workout(token, workout_id)

NextEdit == EditCreate \/ EditList \/ EditUpdate \/ EditDelete

SpecEdit == InitLoggedIn /\ [][NextEdit]_vars

(* The user a request is made as: the stored user its valid token names *)
Caller(r) ==
    {u \in users :
        r.token.kind = "signed" /\ r.at < r.token.exp /\ u.id = r.token.user_id}

(* C1: for users A # B and a workout w of B, an Update or Delete of w's id *)
(* with A's valid token answers 404 with the body given for an id that     *)
(* does not exist at all, and changes no stored workout.                   *)
C1_CrossUser404 ==
    [][\A a \in Caller(last') :
        (/\ last'.op \in {"update", "delete"}
         /\ ~ \E w \in workouts :
                w.id = last'.req.workout_id /\ w.user_id = a.id)
            => /\ last'.status = 404
               /\ last'.body = [message |-> "Workout not found or unauthorized"]
               /\ workouts' = workouts]_vars

(* An update of another user's workout was answered 404 *)
C1_Witness ==
    /\ last.op = "update"
    /\ last.status = 404
    /\ \E w \in workouts :
        /\ w.id = last.req.workout_id
        /\ w.user_id # last.token.user_id
        /\ \E a \in users : a.id = last.token.user_id

EditableFields ==
    {"exercise_name", "muscle_group", "is_cardio", "sets", "reps", "weight_kg"}

(* C6: a successful Update sets each of the six editable fields present in *)
(* the body to the given value and keeps each absent one; it never changes *)
(* the workout's id, user or created_at, any other workout or any user.    *)
C6_PartialUpdate ==
    [][(last'.op = "update" /\ last'.status = 200)
        => \E w \in workouts, w2 \in workouts' :
            /\ w.id = last'.req.workout_id
            /\ w2.id = w.id
            /\ \A f \in EditableFields :
                w2[f] = IF f \in DOMAIN last'.req.data
                        THEN last'.req.data[f] ELSE w[f]
            /\ w2.user_id = w.user_id
            /\ w2.created_at = w.created_at
            /\ workouts' \ {w2} = workouts \ {w}
            /\ users' = users]_vars

(* Only weight_kg was sent for a workout of 3 sets of 10: the volume is    *)
(* 1500 and the names are as created                                       *)
C6_Witness ==
    /\ last.op = "update"
    /\ last.status = 200
    /\ DOMAIN last.req.data = {"weight_kg"}
    /\ last.body.total_volume = 1500
    /\ last.body.sets = 3 /\ last.body.reps = 10
    /\ last.body.exercise_name = "squat" /\ last.body.muscle_group = "legs"
    /\ Cardinality(workouts) = 2

(* The serialized workouts of the last response *)
Serialized ==
    IF last.op \in {"create", "update"} /\ last.status \in {200, 201}
    THEN {last.body}
    ELSE IF last.op = "list" /\ last.status = 200
    THEN {last.body.workouts[i] : i \in 1..Len(last.body.workouts)}
    ELSE {}

(* C7: in every response that serializes a workout, total_volume is 0 when *)
(* the stored is_cardio is true and the stored sets * reps * weight_kg     *)
(* otherwise.                                                              *)
C7_TotalVolume ==
    \A d \in Serialized :
        \E w \in workouts :
            /\ w.id = d.id
            /\ d.total_volume =
                 IF w.is_cardio THEN 0 ELSE w.sets * w.reps * w.weight_kg

(* A workout with sets, reps and weight was edited to cardio and reports 0 *)
C7_Witness ==
    /\ last.op = "update"
    /\ last.status = 200
    /\ "is_cardio" \in DOMAIN last.req.data
    /\ last.body.is_cardio
    /\ last.body.sets * last.body.reps * last.body.weight_kg > 0
    /\ last.body.total_volume = 0

----------------------------------------------------------------------------
(* The two logged-in users create and delete workouts while the clock      *)
(* advances, and list them page by page                                    *)

(* The query string of GET /api/workouts; page = 0, per_page = 0 and       *)
(* muscle_group = "absent" stand for a parameter that is not given         *)
QueryArgs(page, per_page, muscle_group) ==
    [k \in (IF page = 0 THEN {} ELSE {"page"})
            \cup (IF per_page = 0 THEN {} ELSE {"per_page"})
            \cup (IF muscle_group = "absent" THEN {} ELSE {"muscle_group"}) |->
        CASE k = "page" -> page [] k = "per_page" -> per_page [] OTHER -> muscle_group]

PagesCreate ==
    \E token \in IssuedTokens, data \in {StrengthBody, CardioBody} :
        /\ create_workout(token, data)
        /\ \A w \in workouts' : w.id <= MaxListId

PagesList ==
    \E token \in IssuedTokens, page \in 0..MaxPage, per_page \in 0..MaxPerPage,
       muscle_group \in {"absent", "legs"} :
        get_workouts(token, QueryArgs(page, per_page, muscle_group))

PagesDelete ==
    \E token \in IssuedTokens, workout_id \in 1..MaxListId :
        delete_workout(token, workout_id)

PagesClock == \E t \in 0..MaxOffset : Tick(t)

NextPages == PagesCreate \/ PagesList \/ PagesDelete \/ PagesClock

SpecPages == InitLoggedIn /\ [][NextPages]_vars

(* C8: List with page >= 1 and perPage >= 1 returns the page-th slice of   *)
(* length perPage of the caller's own workouts (those of the given muscle  *)
(* group when a filter is given) ordered by created_at descending, with    *)
(* total_pages = ceil(|S| / perPage), current_page = page, has_prev =      *)
(* (page > 1), has_next = (page < total_pages); a page beyond total_pages  *)
(* is an empty list with status 200; page and perPage default to 1 and 5.  *)
C8_Pagination ==
    (last.op = "list" /\ Caller(last) # {}) =>
        LET args == last.req
            page == IF "page" \in DOMAIN args THEN args.page ELSE 1
            perPage == IF "per_page" \in DOMAIN args THEN args.per_page ELSE 5
            filtered == "muscle_group" \in DOMAIN args /\ args.muscle_group # ""
            own == {w \in workouts :
                       /\ \E a \in Caller(last) : w.user_id = a.id
                       /\ filtered => w.muscle_group = args.muscle_group}
            n == Cardinality(own)
            first == (page - 1) * perPage + 1
            count == IF first > n THEN 0 ELSE Min(perPage, n - first + 1)
            b == last.body
        IN  (page >= 1 /\ perPage >= 1) =>
            /\ last.status = 200
            /\ \E S \in Orders(own) :
                /\ \A i, j \in 1..n : i < j => S[i].created_at >= S[j].created_at
                /\ Len(b.workouts) = count
                /\ \A i \in 1..count : b.workouts[i] = to_dict(S[first + i - 1])
            /\ b.total_pages * perPage >= n
            /\ (b.total_pages - 1) * perPage < n
            /\ b.current_page = page
            /\ b.has_prev = (page > 1)
            /\ b.has_next = (page < b.total_pages)
            /\ page > b.total_pages => b.workouts = <<>>

(* The second and last page of three workouts, two to a page *)
C8_Witness ==
    /\ last.op = "list"
    /\ last.status = 200
    /\ last.req = [page |-> 2, per_page |-> 2]
    /\ Len(last.body.workouts) = 1
    /\ last.body.total_pages = 2
    /\ last.body.has_prev /\ ~last.body.has_next

(* C9: a successful Create followed immediately by List of page 1 without  *)
(* filter by the same user returns the created workout as the first item,  *)
(* with the field values the Create response returned, also when the user  *)
(* owns workouts created at the same timestamp.                            *)
C9_CreateThenList ==
    [][(/\ last.op = "create" /\ last.status = 201
        /\ last'.op = "list" /\ last'.status = 200
        /\ last'.token.user_id = last.token.user_id
        /\ "muscle_group" \notin DOMAIN last'.req
        /\ "page" \in DOMAIN last'.req => last'.req.page = 1)
        => /\ Len(last'.body.workouts) >= 1
           /\ last'.body.workouts[1] = last.body]_vars

----------------------------------------------------------------------------
(* Register requests served concurrently: each worker runs register as two *)
(* steps, the lookup of the username and, later, the insert and commit,    *)
(* against a users table with a unique username column                     *)

Workers == 1..MaxWorkers

InitRace ==
    /\ users = {}
    /\ workouts = {}
    /\ now = 0
    /\ issued = {}
    /\ last = Response("start", AbsentToken, FALSE, NoArgs, 0, NoArgs)
    /\ rpc = [p \in Workers |-> "idle"]
    /\ rreq = [p \in Workers |-> [username |-> "", password |-> ""]]
    /\ rstatus = [p \in Workers |-> 0]

(* register up to the lookup: the validation and the existence check *)
RegisterCheck(p, username, password) ==
    /\ rpc[p] = "idle"
    /\ rreq' = [rreq EXCEPT ![p] = [username |-> username, password |-> password]]
    /\ IF username = "" \/ password = ""
       THEN /\ rstatus' = [rstatus EXCEPT ![p] = 400]
            /\ rpc' = [rpc EXCEPT ![p] = "done"]
       ELSE IF UserByName(username) # {}
       THEN /\ rstatus' = [rstatus EXCEPT ![p] = 409]
            /\ rpc' = [rpc EXCEPT ![p] = "done"]
       ELSE /\ rpc' = [rpc EXCEPT ![p] = "insert"]
            /\ UNCHANGED rstatus
    /\ UNCHANGED <<users, workouts, now, issued, last>>

(* register from the insert on: db.session.add and db.session.commit.  The *)
(* unique constraint on username makes the commit raise IntegrityError,    *)
(* which register does not catch: Flask answers 500                        *)
RegisterCommit(p) ==
    /\ rpc[p] = "insert"
    /\ IF \E u \in users : u.username = rreq[p].username
       THEN /\ rstatus' = [rstatus EXCEPT ![p] = 500]
            /\ UNCHANGED users
       ELSE /\ users' = users \cup {NewUser(rreq[p].username, rreq[p].password)}
            /\ rstatus' = [rstatus EXCEPT ![p] = 201]
    /\ rpc' = [rpc EXCEPT ![p] = "done"]
    /\ UNCHANGED <<workouts, now, issued, last, rreq>>

RaceCheck ==
    \E p \in Workers, username \in Usernames \cup {""}, password \in {"pw"} :
        RegisterCheck(p, username, password)

RaceCommit == \E p \in Workers : RegisterCommit(p)

NextRace == RaceCheck \/ RaceCommit

SpecRace == InitRace /\ [][NextRace]_vars

(* C10: when two Register requests for the same username, not stored yet,  *)
(* run concurrently, then under every interleaving one answers 201 and the *)
(* other 409, no request answers anything else and no two users share the *)
(* username.                                                               *)
C10_RegisterRace ==
    /\ \A u1, u2 \in users : u1.username = u2.username => u1 = u2
    /\ \A p, q \in Workers :
        (/\ p # q
         /\ rpc[p] = "done" /\ rpc[q] = "done"
         /\ rreq[p].username # ""
         /\ rreq[p].username = rreq[q].username
         /\ \A r \in Workers \ {p, q} :
                rpc[r] = "idle" \/ rreq[r].username # rreq[p].username)
            => {rstatus[p], rstatus[q]} = {201, 409}

====
